---- MODULE Spec2Model ----
(***************************************************************************)
(* Veritas image verification: the forensic detectors                      *)
(* (backend/forensics/*.py) and the /api/verify/image handler              *)
(* (backend/app.py, verify_image).                                         *)
(*                                                                         *)
(* Python dicts are functions whose domain is the set of keys present.     *)
(* Pixel statistics (ELA error levels, FFT ratios, entropies, ...) are     *)
(* inputs carried by the abstract image; everything the code computes from *)
(* them is computed here the same way, in fixed point:                     *)
(*   - ELA max_error / suspicious_regions in hundredths (round(x, 2)),     *)
(*   - detector sub-scores in thousandths.                                 *)
(***************************************************************************)
EXTENDS Integers, Sequences, FiniteSets, TLC

\* ------------------------------------------------------------------ bounds
MaxInd == 4          \* longest indicator list handed to _calculate_risk
MaxStore == 4        \* patterns of one verdict kept in the pattern store

\* ------------------------------------------------------------- dict helpers
None == "None"

Has(d, k) == k \in DOMAIN d

Get(d, k, default) == IF k \in DOMAIN d THEN d[k] ELSE default

Put(d, k, v) == [x \in (DOMAIN d) \cup {k} |-> IF x = k THEN v ELSE d[x]]

Min(a, b) == IF a <= b THEN a ELSE b

Max(a, b) == IF a >= b THEN a ELSE b

\* int(): truncation toward zero of num/den (den > 0)
Trunc(num, den) == IF num >= 0 THEN num \div den ELSE -((-num) \div den)

\* ------------------------------------------------------------------ text
\* A metadata string is the sequence of its lower-cased words; `sig in text`
\* is containment of the signature's words as a contiguous run.
Lower(s) ==
    CASE s = "Adobe Photoshop 2024" -> <<"adobe", "photoshop", "2024">>
      [] s = "GIMP 2.10" -> <<"gimp", "2.10">>
      [] s = "Canon EOS R5" -> <<"canon", "eos", "r5">>
      [] s = "DALL-E 3" -> <<"dall-e", "3">>
      [] s = "OpenAI DALL-E" -> <<"openai", "dall-e">>
      [] s = "Adobe Firefly" -> <<"adobe", "firefly">>
      [] s = "Midjourney v6 via Stable Diffusion" ->
             <<"midjourney", "v6", "via", "stable", "diffusion">>
      [] s = "c2pa manifest" -> <<"c2pa", "manifest">>
      [] s = "APP13 Photoshop 3.0 8BIM" -> <<"app13", "photoshop", "3.0", "8bim">>
      [] s = "APP13 Photoshop 3.0 Copilot Designer" ->
             <<"app13", "photoshop", "3.0", "copilot", "designer">>
      [] s = "APP1 Exif" -> <<"app1", "exif">>
      [] s = "holiday photo" -> <<"holiday", "photo">>
      [] OTHER -> <<>>

Contains(sig, text) ==
    \E i \in 1..(Len(text) - Len(sig) + 1) : SubSeq(text, i, i + Len(sig) - 1) = sig

\* ---------------------------------------------------- image_forensics.py
editing_tools_PhotoshopOnly == <<"photoshop">>

editing_tools == <<"photoshop", "gimp", "lightroom", "snapseed", "canva">>

\* extract_metadata: _getexif() raising (no such attribute), returning
\* nothing, or returning tags; the loop over exif_data.items()
RECURSIVE ExifLoop(_, _)
ExifLoop(tags, metadata) ==
    IF tags = <<>> THEN metadata
    ELSE LET t == Head(tags)
             m == IF t.tag = "GPSInfo"
                  THEN [metadata EXCEPT !.gps = t.value]
                  ELSE IF t.tag \in {"Make", "Model", "LensModel"}
                  THEN [metadata EXCEPT !.camera = Put(metadata.camera, t.tag, t.value)]
                  ELSE IF t.tag = "Software"
                  THEN [metadata EXCEPT !.software = t.value]
                  ELSE [metadata EXCEPT !.exif = Put(metadata.exif, t.tag, t.value)]
         IN  ExifLoop(Tail(tags), m)

extract_metadata_FlagUnset(img) ==
    LET base == [exif |-> <<>>, gps |-> <<>>, camera |-> <<>>,
                 software |-> None, has_metadata |-> FALSE]
    IN  CASE img.exif.kind = "noattr" -> Put(base, "extraction_error", "AttributeError")
          [] img.exif.kind = "tags" /\ img.exif.tags # <<>> ->
                 ExifLoop(img.exif.tags, base)
          [] OTHER -> base

extract_metadata(img) ==
    LET base == [exif |-> <<>>, gps |-> <<>>, camera |-> <<>>,
                 software |-> None, has_metadata |-> FALSE]
    IN  CASE img.exif.kind = "noattr" -> Put(base, "extraction_error", "AttributeError")
          [] img.exif.kind = "tags" /\ img.exif.tags # <<>> ->
                 ExifLoop(img.exif.tags, [base EXCEPT !.has_metadata = TRUE])
          [] OTHER -> base

\* perform_ela: convert / JPEG re-save / difference; any exception gives
\* performed = False with the error text
perform_ela_NoReason(img) ==
    IF ~img.px \/ ~img.jpeg
    THEN [performed |-> FALSE]
    ELSE [performed |-> TRUE,
          max_error |-> img.ela.max_error,
          avg_error |-> img.ela.avg_error,
          suspicious_regions |-> img.ela.suspicious_regions,
          ela_image |-> "base64"]

perform_ela(img) ==
    IF ~img.px \/ ~img.jpeg
    THEN [performed |-> FALSE, error |-> "ela failed"]
    ELSE [performed |-> TRUE,
          max_error |-> img.ela.max_error,
          avg_error |-> img.ela.avg_error,
          suspicious_regions |-> img.ela.suspicious_regions,
          ela_image |-> "base64"]

Indicator(t, s) == [type |-> t, severity |-> s]

_detect_manipulation(results) ==
    LET metadata == Get(results, "metadata", <<>>)
        ela == Get(results, "ela", <<>>)
        c1 == IF ~Get(metadata, "has_metadata", FALSE)
              THEN <<Indicator("metadata_missing", "medium")>> ELSE <<>>
        software == Get(metadata, "software", None)
        c2 == IF software # None
                 /\ \E i \in DOMAIN editing_tools : Contains(<<editing_tools[i]>>, Lower(software))
              THEN <<Indicator("editing_software", "low")>> ELSE <<>>
        c3 == IF Get(ela, "performed", FALSE)
              THEN IF Get(ela, "max_error", 0) > 5000
                   THEN <<Indicator("ela_anomaly", "high")>>
                   ELSE IF Get(ela, "suspicious_regions", 0) > 500
                        THEN <<Indicator("ela_regions", "medium")>>
                        ELSE <<>>
              ELSE <<>>
        c4 == IF DOMAIN Get(metadata, "gps", <<>>) = {}
              THEN <<Indicator("no_location", "info")>> ELSE <<>>
    IN  c1 \o c2 \o c3 \o c4

\* the for loop of _calculate_risk, risk carried in thousandths
RECURSIVE RiskLoop(_, _)
RiskLoop(indicators, risk) ==
    IF indicators = <<>> THEN risk
    ELSE LET severity == Get(Head(indicators), "severity", "info")
             add == IF severity = "high" THEN 30
                    ELSE IF severity = "medium" THEN 15
                    ELSE IF severity = "low" THEN 5
                    ELSE 0
         IN  RiskLoop(Tail(indicators), risk + add * 1000)

\* max_error (hundredths) * 0.4, in thousandths
ElaTerm_Uncapped(ela) ==
    IF Get(ela, "performed", FALSE) THEN Get(ela, "max_error", 0) * 4 ELSE 0

ElaTerm_Subtracted(ela) ==
    IF Get(ela, "performed", FALSE)
    THEN -Min(20 * 1000, Get(ela, "max_error", 0) * 4)
    ELSE 0

ElaTerm(ela) ==
    IF Get(ela, "performed", FALSE)
    THEN Min(20 * 1000, Get(ela, "max_error", 0) * 4)
    ELSE 0

_calculate_risk(results) ==
    LET indicators == Get(results, "manipulation_indicators", <<>>)
        ela == Get(results, "ela", <<>>)
        risk == RiskLoop(indicators, 0) + ElaTerm(ela)
    IN  Min(100, Trunc(risk, 1000))

\* ImageForensics.analyze / analyze_image_bytes
analyze_NameSensitive(img, filename) ==
    IF ~img.open THEN [error |-> "cannot identify image file"]
    ELSE LET r0 == [filename |-> filename,
                    metadata |-> extract_metadata(img),
                    ela |-> perform_ela(img),
                    manipulation_indicators |-> <<>>,
                    risk_score |-> 0]
             named == IF filename = "upload.jpg" THEN <<>>
                      ELSE <<Indicator("renamed_file", "low")>>
             r1 == [r0 EXCEPT !.manipulation_indicators = _detect_manipulation(r0) \o named]
         IN  [r1 EXCEPT !.risk_score = _calculate_risk(r1)]

analyze(img, filename) ==
    IF ~img.open THEN [error |-> "cannot identify image file"]
    ELSE LET r0 == [filename |-> filename,
                    metadata |-> extract_metadata(img),
                    ela |-> perform_ela(img),
                    manipulation_indicators |-> <<>>,
                    risk_score |-> 0]
             r1 == [r0 EXCEPT !.manipulation_indicators = _detect_manipulation(r0)]
         IN  [r1 EXCEPT !.risk_score = _calculate_risk(r1)]

\* ------------------------------------------------------- c2pa_detector.py
\* AI_SIGNATURES in iteration order: <<source, signature>>
AI_SIGNATURES ==
    << <<"dall-e", <<"openai">> >>, <<"dall-e", <<"dall-e">> >>,
       <<"dall-e", <<"dalle">> >>,
       <<"adobe_firefly", <<"adobe">> >>, <<"adobe_firefly", <<"firefly">> >>,
       <<"adobe_firefly", <<"adobe", "firefly">> >>,
       <<"microsoft_copilot", <<"microsoft">> >>,
       <<"microsoft_copilot", <<"copilot">> >>,
       <<"microsoft_copilot", <<"designer">> >>,
       <<"midjourney", <<"midjourney">> >>,
       <<"stable_diffusion", <<"stable", "diffusion">> >>,
       <<"stable_diffusion", <<"stability.ai">> >>,
       <<"stable_diffusion", <<"stablediffusion">> >>,
       <<"google_imagen", <<"google">> >>, <<"google_imagen", <<"imagen">> >> >>

C2paEmpty == [detected |-> FALSE, source |-> None, metadata_found |-> <<>>]

\* the nested `for source, signatures ... for sig in signatures` loop over
\* one text: every match sets detected, overwrites source, appends a finding
RECURSIVE SigLoop(_, _, _, _)
SigLoop(k, text, where, result) ==
    IF k > Len(AI_SIGNATURES) THEN result
    ELSE LET source == AI_SIGNATURES[k][1]
             sig == AI_SIGNATURES[k][2]
             r == IF Contains(sig, text)
                  THEN [detected |-> TRUE, source |-> source,
                        metadata_found |-> Append(result.metadata_found, <<where, sig>>)]
                  ELSE result
         IN  SigLoop(k + 1, text, where, r)

_check_xmp_metadata(img) ==
    IF img.xmp = None THEN C2paEmpty
    ELSE LET xmp_lower == Lower(img.xmp)
             r == SigLoop(1, xmp_lower, "XMP", C2paEmpty)
         IN  IF Contains(<<"c2pa">>, xmp_lower) \/ Contains(<<"contentcredentials">>, xmp_lower)
             THEN [r EXCEPT !.detected = TRUE,
                            !.metadata_found = Append(r.metadata_found, <<"C2PA", <<>> >>)]
             ELSE r

RECURSIVE ExifSigLoop(_, _)
ExifSigLoop(tags, result) ==
    IF tags = <<>> THEN result
    ELSE LET t == Head(tags)
             r == IF t.tag \in {"Software", "Make", "Model", "ImageDescription", "UserComment"}
                  THEN SigLoop(1, Lower(t.value), "EXIF " \o t.tag, result)
                  ELSE result
         IN  ExifSigLoop(Tail(tags), r)

_check_exif_metadata(img) ==
    IF img.exif.kind = "tags" THEN ExifSigLoop(img.exif.tags, C2paEmpty) ELSE C2paEmpty

RECURSIVE IptcLoop(_, _)
IptcLoop(apps, result) ==
    IF apps = <<>> THEN result
    ELSE LET app_lower == Lower(Head(apps))
             r == IF Contains(<<"iptc">>, app_lower) \/ Contains(<<"photoshop">>, app_lower)
                  THEN SigLoop(1, app_lower, "IPTC", result)
                  ELSE result
         IN  IptcLoop(Tail(apps), r)

_check_iptc_metadata(img) == IptcLoop(img.applist, C2paEmpty)

\* img.info items: the XMP packet (skipped when it is bytes longer than 1000)
\* followed by the other entries
InfoItems(img) ==
    (IF img.xmp # None /\ ~img.xmpBig THEN << [key |-> "xmp", value |-> img.xmp] >> ELSE <<>>)
    \o img.info

RECURSIVE InfoLoop(_, _)
InfoLoop(items, result) ==
    IF items = <<>> THEN result
    ELSE InfoLoop(Tail(items),
                  SigLoop(1, Lower(Head(items).value), "Image info " \o Head(items).key, result))

_check_image_info(img) == InfoLoop(InfoItems(img), C2paEmpty)

\* the `for result in all_results` loop of C2PADetector.detect
RECURSIVE CombineLoop(_, _)
CombineLoop(all_results, results) ==
    IF all_results = <<>> THEN results
    ELSE LET result == Head(all_results)
             r == IF result.detected
                  THEN [results EXCEPT
                          !.detected = TRUE,
                          !.source = IF result.source # None /\ results.source = None
                                     THEN result.source ELSE results.source,
                          !.metadata_found = results.metadata_found \o result.metadata_found]
                  ELSE results
         IN  CombineLoop(Tail(all_results), r)

detect_c2pa(img) ==
    IF ~img.open
    THEN [detected |-> FALSE, source |-> None, confidence |-> 0,
          error |-> "cannot identify image file"]
    ELSE LET all_results == << _check_xmp_metadata(img), _check_exif_metadata(img),
                              _check_iptc_metadata(img), _check_image_info(img) >>
             results == CombineLoop(all_results,
                                    [detected |-> FALSE, source |-> None, confidence |-> 0,
                                     metadata_found |-> <<>>])
         IN  IF results.detected
             THEN [results EXCEPT !.confidence = Min(100, Len(results.metadata_found) * 25 + 50)]
             ELSE results

\* ---------------------------------------------------- synthid_detector.py
\* Sub-analyses: the statistic computed from the pixels, or 0.3 when the
\* pixel data cannot be read (the sub-analysis' own except branch).
_analyze_frequency_domain(img) == IF img.px THEN img.syn.freq ELSE 300

_analyze_statistical_patterns(img) == IF img.px THEN img.syn.stat ELSE 300

_analyze_lsb_patterns_ZeroDefault(img) == IF img.px THEN img.syn.lsb ELSE 0

_analyze_lsb_patterns(img) == IF img.px THEN img.syn.lsb ELSE 300

\* combined_score in units of 1/10000
SynthCombined_EqualWeights(freq_score, stat_score, lsb_score) ==
    (freq_score * 10 + stat_score * 10 + lsb_score * 10) \div 3

SynthCombined(freq_score, stat_score, lsb_score) ==
    freq_score * 4 + stat_score * 3 + lsb_score * 3

detect_synthid_Uncaught(img) ==
    IF ~img.open \/ (~img.rgb /\ ~img.px)
    THEN [raised |-> "OSError"]
    ELSE LET combined_score == SynthCombined(_analyze_frequency_domain(img),
                                             _analyze_statistical_patterns(img),
                                             _analyze_lsb_patterns(img))
         IN  [detected |-> combined_score > 2500,
              confidence |-> Trunc(combined_score, 100)]

detect_synthid(img) ==
    IF ~img.open \/ (~img.rgb /\ ~img.px)
    THEN [detected |-> FALSE, confidence |-> 0, error |-> "cannot decode image"]
    ELSE LET freq_score == _analyze_frequency_domain(img)
             stat_score == _analyze_statistical_patterns(img)
             lsb_score == _analyze_lsb_patterns(img)
             combined_score == SynthCombined(freq_score, stat_score, lsb_score)
             results == [detected |-> FALSE, confidence |-> 0,
                         analysis |-> [frequency_anomaly |-> freq_score,
                                       statistical_pattern |-> stat_score,
                                       lsb_pattern |-> lsb_score],
                         note |-> "Full SynthID detection requires Google's decoder"]
         IN  IF combined_score > 3500
             THEN [results EXCEPT !.detected = TRUE,
                                  !.confidence = Trunc(combined_score, 100)]
             ELSE IF combined_score > 2500
             THEN [results EXCEPT !.detected = TRUE,
                                  !.confidence = Trunc(combined_score, 100),
                                  !.note = "Possible SynthID pattern detected"]
             ELSE [results EXCEPT !.confidence = Trunc(combined_score, 100)]

\* ----------------------------------------------------- visual_detector.py
\* Each sub-analysis returns <<score, indicators>>; (0.3, []) from its
\* except branch when the pixel data cannot be read.
_analyze_texture_patterns(img) ==
    IF ~img.px THEN <<300, <<>> >>
    ELSE IF ~img.vis.blocks THEN <<300, <<>> >>
    ELSE <<Min(1000, img.vis.bimodal + 300),
           IF img.vis.bimodal > 100
           THEN <<"Unusual texture distribution detected">> ELSE <<>> >>

_analyze_edge_consistency(img) ==
    IF ~img.px THEN <<300, <<>> >>
    ELSE LET u0 == img.vis.uniformity
             i1 == IF u0 > 500 THEN <<"Unusually uniform edge patterns">> ELSE <<>>
             i2 == IF img.vis.sharp THEN <<"Unusually sharp edges detected">> ELSE <<>>
             u1 == IF img.vis.sharp THEN Min(1000, u0 + 200) ELSE u0
         IN  <<Min(1000, u1), i1 \o i2>>

_analyze_color_distribution(img) ==
    IF ~img.px THEN <<300, <<>> >>
    ELSE IF img.vis.avg_saturation > 400 /\ img.vis.sat_uniformity > 600
    THEN <<700, <<"Heightened, uniform color saturation">> >>
    ELSE IF img.vis.avg_saturation > 300 THEN <<500, <<>> >>
    ELSE <<300, <<>> >>

_analyze_noise_symmetry(img) ==
    IF ~img.px THEN <<300, <<>> >>
    ELSE IF img.vis.same_shape /\ img.vis.lr_correlation > 300
    THEN <<Min(1000, img.vis.lr_correlation + 300), <<"Symmetric noise patterns detected">> >>
    ELSE <<300, <<>> >>

_detect_ai_artifacts(img) ==
    IF ~img.px THEN <<300, <<>> >>
    ELSE <<Min(1000, 300 + (IF img.vis.h_regular THEN 300 ELSE 0)
                         + (IF img.vis.v_regular THEN 300 ELSE 0)),
           (IF img.vis.h_regular THEN <<"Regular grid pattern detected">> ELSE <<>>)
           \o (IF img.vis.v_regular THEN <<"Vertical pattern artifacts">> ELSE <<>>) >>

\* combined_score in units of 1/100000
VisualCombined_Flat(texture_score, edge_score, color_score, symmetry_score, artifact_score) ==
    (texture_score + edge_score + color_score + symmetry_score + artifact_score) * 20

VisualCombined(texture_score, edge_score, color_score, symmetry_score, artifact_score) ==
    texture_score * 20 + edge_score * 20 + color_score * 15
    + symmetry_score * 20 + artifact_score * 25

FirstN_Last(seq, n) == SubSeq(seq, Max(1, Len(seq) - n + 1), Len(seq))

FirstN(seq, n) == SubSeq(seq, 1, Min(n, Len(seq)))

detect_visual_patterns(img) ==
    IF ~img.open \/ (~img.rgb /\ ~img.px)
    THEN [detected |-> FALSE, confidence |-> 0, error |-> "cannot decode image"]
    ELSE LET texture == _analyze_texture_patterns(img)
             edge == _analyze_edge_consistency(img)
             color == _analyze_color_distribution(img)
             symmetry == _analyze_noise_symmetry(img)
             artifact == _detect_ai_artifacts(img)
             all_indicators == texture[2] \o edge[2] \o color[2] \o symmetry[2] \o artifact[2]
             combined_score == VisualCombined(texture[1], edge[1], color[1],
                                              symmetry[1], artifact[1])
             results == [detected |-> FALSE,
                         confidence |-> Trunc(combined_score, 1000),
                         indicators |-> FirstN(all_indicators, 5)]
         IN  IF combined_score > 40000
             THEN [detected |-> TRUE, confidence |-> results.confidence,
                   indicators |-> results.indicators, verdict |-> "Likely AI-generated"]
             ELSE IF combined_score > 30000
             THEN [detected |-> TRUE, confidence |-> results.confidence,
                   indicators |-> results.indicators, verdict |-> "Possibly AI-generated"]
             ELSE [detected |-> FALSE, confidence |-> results.confidence,
                   indicators |-> results.indicators, verdict |-> "Likely authentic"]

\* ------------------------------------------------------ reverse_search.py
\* search_image: nothing outside _search_tineye's try block raises except
\* _analyze_results on a source whose "domain" is null (None.lower()).
search_image(img, tineye) ==
    IF tineye = "null_domain" THEN [raised |-> "AttributeError"]
    ELSE LET matches == IF tineye = "matches" THEN 3 ELSE 0
         IN  [matches_found |-> matches,
              analysis |-> [verdict |-> IF matches = 0 THEN "unique" ELSE "limited_matches",
                            originality_score |-> IF matches = 0 THEN 100 ELSE 80],
              manual_search_urls |-> "urls"]

\* ------------------------------------------------------------ pattern store
\* learning/supabase_db.py: rows of the `patterns` table
Row(id, type, verdict, usage) ==
    [id |-> id, type |-> type, pattern |-> "p", verdict |-> verdict, usage_count |-> usage]

\* i rows with verdict "Inconclusive", f rows with a verdict containing
\* "Fake", and one row of another media type that is used most of all
MkStore(i, f) ==
    {Row(100 + k, "image", "Inconclusive", 2 * k) : k \in 1..i}
    \cup {Row(200 + k, "image", IF k = 1 THEN "Fake" ELSE "Fake/Generated", 2 * k + 1) : k \in 1..f}
    \cup {Row(300, "text", "Inconclusive", 50)}

\* the table, and whether get_client() / the query succeeds
Stores ==
    {[available |-> TRUE, rows |-> MkStore(i, f)] : i \in 0..MaxStore, f \in 0..2}
    \cup {[available |-> FALSE, rows |-> MkStore(1, 1)]}

\* .eq('type', media_type).order('usage_count', desc=True).limit(limit)
RECURSIVE OrderDesc(_)
OrderDesc(rows) ==
    IF rows = {} THEN <<>>
    ELSE LET top == CHOOSE r \in rows :
                        \A q \in rows : r.usage_count > q.usage_count
                                         \/ (r.usage_count = q.usage_count /\ r.id <= q.id)
         IN  <<top>> \o OrderDesc(rows \ {top})

get_patterns_by_type_AnyType(db, media_type, limit) ==
    IF ~db.available THEN <<>>
    ELSE FirstN(OrderDesc(db.rows), limit)

get_patterns_by_type(db, media_type, limit) ==
    IF ~db.available THEN <<>>
    ELSE FirstN(OrderDesc({r \in db.rows : r.type = media_type}), limit)

\* build_prompt_with_patterns: the patterns_info list
build_prompt_with_patterns(db, media_type) ==
    LET patterns == get_patterns_by_type(db, media_type, 5)
    IN  [k \in 1..Len(patterns) |->
            [pattern |-> Get(patterns[k], "pattern", ""),
             verdict |-> Get(patterns[k], "verdict", "")]]

\* `'Fake' in verdict` over the verdict strings in use
ContainsFake(v) == v \in {"Fake", "Fake/Generated", "AI-Generated/Fake"}

\* ------------------------------------------------------------------ images
ExifNone == [kind |-> "empty", tags |-> <<>>]

Tag(t, v) == [tag |-> t, value |-> v]

MetaProfiles ==
    { [exif |-> [kind |-> "noattr", tags |-> <<>>], xmp |-> None, xmpBig |-> FALSE,
       applist |-> <<>>, info |-> <<>>],
      [exif |-> ExifNone, xmp |-> "c2pa manifest", xmpBig |-> TRUE,
       applist |-> <<"APP1 Exif">>, info |-> <<>>],
      [exif |-> [kind |-> "tags",
                 tags |-> <<Tag("Make", "Canon EOS R5"), Tag("Model", "Canon EOS R5"),
                            Tag("GPSInfo", [GPSLatitude |-> "48.1"]),
                            Tag("DateTime", "holiday photo")>>],
       xmp |-> None, xmpBig |-> FALSE,
       applist |-> <<"APP1 Exif", "APP13 Photoshop 3.0 8BIM">>,
       info |-> <<[key |-> "comment", value |-> "holiday photo"]>>],
      [exif |-> [kind |-> "tags",
                 tags |-> <<Tag("Software", "GIMP 2.10"),
                            Tag("ImageDescription", "DALL-E 3")>>],
       xmp |-> "OpenAI DALL-E", xmpBig |-> FALSE,
       applist |-> <<>>, info |-> <<>>] }

PixelProfiles ==
    { \* clean photo
      [ela |-> [max_error |-> 400, avg_error |-> 150, suspicious_regions |-> 120],
       syn |-> [freq |-> 100, stat |-> 300, lsb |-> 100],
       vis |-> [blocks |-> TRUE, bimodal |-> 0, uniformity |-> -250, sharp |-> FALSE,
                avg_saturation |-> 200, sat_uniformity |-> 800,
                same_shape |-> TRUE, lr_correlation |-> 50,
                h_regular |-> FALSE, v_regular |-> FALSE]],
      \* recompressed, borderline detectors
      [ela |-> [max_error |-> 5500, avg_error |-> 900, suspicious_regions |-> 800],
       syn |-> [freq |-> 300, stat |-> 300, lsb |-> 300],
       vis |-> [blocks |-> TRUE, bimodal |-> 0, uniformity |-> 340, sharp |-> FALSE,
                avg_saturation |-> 200, sat_uniformity |-> 800,
                same_shape |-> FALSE, lr_correlation |-> 900,
                h_regular |-> FALSE, v_regular |-> FALSE]],
      \* many suspicious regions, strong frequency signal
      [ela |-> [max_error |-> 3100, avg_error |-> 300, suspicious_regions |-> 800],
       syn |-> [freq |-> 1000, stat |-> 900, lsb |-> 200],
       vis |-> [blocks |-> FALSE, bimodal |-> 0, uniformity |-> 300, sharp |-> FALSE,
                avg_saturation |-> 350, sat_uniformity |-> 500,
                same_shape |-> TRUE, lr_correlation |-> 100,
                h_regular |-> FALSE, v_regular |-> FALSE]],
      \* flat graphic, a few hard edges: edge_std several times edge_mean + 1,
      \* a tenth of the pixels above three times the average error level
      [ela |-> [max_error |-> 400, avg_error |-> 30, suspicious_regions |-> 800],
       syn |-> [freq |-> 200, stat |-> 300, lsb |-> 100],
       vis |-> [blocks |-> TRUE, bimodal |-> 0, uniformity |-> -6000, sharp |-> FALSE,
                avg_saturation |-> 100, sat_uniformity |-> 800,
                same_shape |-> TRUE, lr_correlation |-> 50,
                h_regular |-> FALSE, v_regular |-> FALSE]],
      \* synthetic look: every visual indicator triggers
      [ela |-> [max_error |-> 25500, avg_error |-> 2000, suspicious_regions |-> 0],
       syn |-> [freq |-> 200, stat |-> 100, lsb |-> 50],
       vis |-> [blocks |-> TRUE, bimodal |-> 250, uniformity |-> 700, sharp |-> TRUE,
                avg_saturation |-> 600, sat_uniformity |-> 900,
                same_shape |-> TRUE, lr_correlation |-> 800,
                h_regular |-> TRUE, v_regular |-> TRUE]] }

MkImage(open, rgb, px, jpeg, m, p) ==
    [open |-> open, rgb |-> rgb, px |-> px, jpeg |-> jpeg,
     exif |-> m.exif, xmp |-> m.xmp, xmpBig |-> m.xmpBig,
     applist |-> m.applist, info |-> m.info,
     ela |-> p.ela, syn |-> p.syn, vis |-> p.vis]

AnyMeta == CHOOSE m \in MetaProfiles : m.exif.kind = "noattr"

AnyPixels == CHOOSE p \in PixelProfiles : p.ela.avg_error = 150

\* undecodable bytes; truncated pixel data (palette/grey or RGB); an image
\* too large to re-save as JPEG; an ordinary image
Images ==
    {MkImage(FALSE, FALSE, FALSE, FALSE, AnyMeta, AnyPixels)}
    \cup {MkImage(TRUE, rgb, FALSE, FALSE, m, AnyPixels) : rgb \in BOOLEAN, m \in MetaProfiles}
    \cup {MkImage(TRUE, TRUE, TRUE, jpeg, m, p) :
              jpeg \in BOOLEAN, m \in MetaProfiles, p \in PixelProfiles}

\* ------------------------------------------------------------------- state
VARIABLES
    hasFile,         \* 'file' in request.files
    image,           \* content = file.read()
    filename,        \* file.filename
    store,           \* the patterns table
    task,            \* pool work item of each submitted callable
    runs,            \* how many times each callable has been started
    fut,             \* the future's outcome of each callable
    pc,              \* position of the request thread in verify_image
    idx,             \* next callable to submit / next future to wait for
    exc,             \* an exception is propagating out of the with block
    forensics, reverse, c2pa_result, synthid_result, visual_result,
    watermarks, patterns_used,
    result,          \* the dict parsed from the model's reply, then enriched
    response,        \* what the route returned
    saved,           \* rows written by save_analysis
    rk,              \* inputs and outputs of the _calculate_risk exerciser
    dx               \* repeated detector invocations on one buffer, with their results

vars == <<hasFile, image, filename, store, task, runs, fut, pc, idx, exc,
          forensics, reverse, c2pa_result, synthid_result, visual_result,
          watermarks, patterns_used, result, response, saved, rk, dx>>

inputs == <<hasFile, image, filename>>

locals == <<forensics, reverse, c2pa_result, synthid_result, visual_result>>

pool == <<task, runs, fut>>

TaskOrder == <<"forensics", "reverse", "c2pa", "synthid", "visual">>

Tasks == {TaskOrder[k] : k \in DOMAIN TaskOrder}

Unset == <<>>

RkIdle == [stage |-> "idle"]

DxIdle == [stage |-> "idle"]

\* the request thread is past the `with ThreadPoolExecutor` block
FusionPcs == {"summary", "prompt", "llm", "boost", "reclass", "forensics", "reverse",
              "watermarks", "override", "details", "finish", "save"}

InitRequest ==
    /\ filename = "upload.jpg"
    /\ task = [t \in Tasks |-> "none"]
    /\ runs = [t \in Tasks |-> 0]
    /\ fut = [t \in Tasks |-> Unset]
    /\ pc = "start"
    /\ idx = 1
    /\ exc = FALSE
    /\ forensics = Unset /\ reverse = Unset /\ c2pa_result = Unset
    /\ synthid_result = Unset /\ visual_result = Unset
    /\ watermarks = Unset
    /\ patterns_used = <<>>
    /\ result = Unset
    /\ response = Unset
    /\ saved = <<>>

Init ==
    /\ \/ hasFile = TRUE /\ image \in Images
       \/ hasFile = FALSE /\ image = CHOOSE i \in Images : ~i.open
    /\ store \in Stores
    /\ InitRequest
    /\ rk = RkIdle
    /\ dx = DxIdle

\* ----------------------------------------------------- verify_image: pool
\* `if 'file' not in request.files: return jsonify({"error": "No file"}), 400`
Receive ==
    /\ pc = "start"
    /\ IF hasFile
       THEN pc' = "submit" /\ UNCHANGED response
       ELSE pc' = "done" /\ response' = [status |-> 400, error |-> "No file"]
    /\ UNCHANGED <<inputs, store, pool, idx, exc, locals, watermarks, patterns_used,
                   result, saved, rk, dx>>

\* ex.submit(...): the five submissions, in program order
Submit ==
    /\ pc = "submit"
    /\ task' = [task EXCEPT ![TaskOrder[idx]] = "queued"]
    /\ IF idx = Len(TaskOrder)
       THEN pc' = "collect" /\ idx' = 1
       ELSE pc' = pc /\ idx' = idx + 1
    /\ UNCHANGED <<inputs, store, runs, fut, exc, locals, watermarks, patterns_used,
                   result, response, saved, rk, dx>>

\* a worker thread takes the work item (max_workers=5: one per callable)
StartTask_Again(t) ==
    /\ task[t] \in {"queued", "running"} /\ runs[t] < 2
    /\ task' = [task EXCEPT ![t] = "running"]
    /\ runs' = [runs EXCEPT ![t] = @ + 1]
    /\ UNCHANGED <<inputs, store, fut, pc, idx, exc, locals, watermarks, patterns_used,
                   result, response, saved, rk, dx>>

StartTask(t) ==
    /\ task[t] = "queued"
    /\ task' = [task EXCEPT ![t] = "running"]
    /\ runs' = [runs EXCEPT ![t] = @ + 1]
    /\ UNCHANGED <<inputs, store, fut, pc, idx, exc, locals, watermarks, patterns_used,
                   result, response, saved, rk, dx>>

\* what the callable returns (or raises) on this request's bytes
Outcome(t, tineye) ==
    CASE t = "forensics" -> analyze(image, filename)
      [] t = "reverse" -> search_image(image, tineye)
      [] t = "c2pa" -> detect_c2pa(image)
      [] t = "synthid" -> detect_synthid(image)
      [] t = "visual" -> detect_visual_patterns(image)

\* the callable finishes and the future is resolved
FinishTask(t) ==
    /\ task[t] = "running"
    /\ \E tineye \in {"nokey", "matches", "null_domain"} :
          /\ (t # "reverse") => (tineye = "nokey")
          /\ fut' = [fut EXCEPT ![t] = Outcome(t, tineye)]
    /\ task' = [task EXCEPT ![t] = "done"]
    /\ UNCHANGED <<inputs, store, runs, pc, idx, exc, locals, watermarks, patterns_used,
                   result, response, saved, rk, dx>>

\* a future is resolved once its callable has returned or raised
Resolved(t) == task[t] = "done"

\* x_future.result(): blocks until that future is resolved; re-raises
Collect ==
    /\ pc = "collect"
    /\ LET t == TaskOrder[idx] IN
       /\ Resolved(t)
       /\ IF Has(fut[t], "raised")
          THEN /\ exc' = TRUE /\ pc' = "exit" /\ idx' = idx
               /\ UNCHANGED locals
          ELSE /\ forensics' = IF t = "forensics" THEN fut[t] ELSE forensics
               /\ reverse' = IF t = "reverse" THEN fut[t] ELSE reverse
               /\ c2pa_result' = IF t = "c2pa" THEN fut[t] ELSE c2pa_result
               /\ synthid_result' = IF t = "synthid" THEN fut[t] ELSE synthid_result
               /\ visual_result' = IF t = "visual" THEN fut[t] ELSE visual_result
               /\ exc' = exc
               /\ IF idx = Len(TaskOrder)
                  THEN pc' = "exit" /\ idx' = idx
                  ELSE pc' = pc /\ idx' = idx + 1
    /\ UNCHANGED <<inputs, store, pool, watermarks, patterns_used, result, response,
                   saved, rk, dx>>

\* ThreadPoolExecutor.__exit__: shutdown(wait=True), then the exception, if
\* any, reaches `except Exception as e: return jsonify({"error": str(e)}), 500`
ExitPool ==
    /\ pc = "exit"
    /\ \A t \in Tasks : Resolved(t)
    /\ IF exc
       THEN pc' = "done" /\ response' = [status |-> 500, error |-> "exception"]
       ELSE pc' = "summary" /\ UNCHANGED response
    /\ UNCHANGED <<inputs, store, pool, idx, exc, locals, watermarks, patterns_used,
                   result, saved, rk, dx>>

\* --------------------------------------------------- verify_image: fusion
ela == Get(forensics, "ela", <<>>)

metadata == Get(forensics, "metadata", <<>>)

indicators == Get(forensics, "manipulation_indicators", <<>>)

risk_score == Get(forensics, "risk_score", 0)

\* the watermark detection summary
Summary ==
    /\ pc = "summary"
    /\ watermarks' =
          [c2pa |-> [detected |-> Get(c2pa_result, "detected", FALSE),
                     source |-> Get(c2pa_result, "source", None),
                     confidence |-> Get(c2pa_result, "confidence", 0)],
           synthid |-> [detected |-> Get(synthid_result, "detected", FALSE),
                        confidence |-> Get(synthid_result, "confidence", 0)],
           visual_ai |-> [detected |-> Get(visual_result, "detected", FALSE),
                          confidence |-> Get(visual_result, "confidence", 0),
                          indicators |-> Get(visual_result, "indicators", <<>>)]]
    /\ pc' = "prompt"
    /\ UNCHANGED <<inputs, store, pool, idx, exc, locals, patterns_used, result,
                   response, saved, rk, dx>>

\* system_prompt, patterns_used = build_prompt_with_patterns('image')
Prompt ==
    /\ pc = "prompt"
    /\ patterns_used' = build_prompt_with_patterns(store, "image")
    /\ pc' = "llm"
    /\ UNCHANGED <<inputs, store, pool, idx, exc, locals, watermarks, result,
                   response, saved, rk, dx>>

\* what comes back from groq.chat.completions.create and json.loads
LLMReplies ==
    {[kind |-> "raise"], [kind |-> "nojson"]}
    \cup {[kind |-> "json", body |-> [verdict |-> v, confidence |-> c]] :
             v \in {"Authentic", "Inconclusive", "AI-Generated"}, c \in {50, 85, 100}}
    \cup {[kind |-> "json",
           body |-> [verdict |-> v, confidence |-> 85,
                     technicalDetails |-> <<"Lighting">>]] :
             v \in {"Authentic", "Inconclusive"}}

AskLLM ==
    /\ pc = "llm"
    /\ \E reply \in LLMReplies :
          CASE reply.kind = "raise" ->
                 /\ pc' = "done"
                 /\ response' = [status |-> 500, error |-> "exception"]
                 /\ UNCHANGED result
            [] reply.kind = "nojson" ->
                 /\ pc' = "done"
                 /\ response' = [status |-> 500, error |-> "Invalid AI response"]
                 /\ UNCHANGED result
            [] OTHER ->
                 /\ pc' = "boost"
                 /\ result' = reply.body
                 /\ UNCHANGED response
    /\ UNCHANGED <<inputs, store, pool, idx, exc, locals, watermarks, patterns_used,
                   saved, rk, dx>>

\* LEARNING BOOST
Boost_PerPattern ==
    /\ pc = "boost"
    /\ LET original_confidence == Get(result, "confidence", 50)
           original_verdict == Get(result, "verdict", "")
           Matches(p) == p.verdict = original_verdict
           matching_patterns == SelectSeq(patterns_used, Matches)
           boost == Len(matching_patterns) * 5
           new_confidence == Min(95, original_confidence + boost)
       IN  IF patterns_used # <<>> /\ matching_patterns # <<>>
           THEN result' = Put(Put(result, "confidence", new_confidence),
                              "learningBoost", <<boost, Len(matching_patterns)>>)
           ELSE UNCHANGED result
    /\ pc' = "reclass"
    /\ UNCHANGED <<inputs, store, pool, idx, exc, locals, watermarks, patterns_used,
                   response, saved, rk, dx>>

Boost ==
    /\ pc = "boost"
    /\ LET original_confidence == Get(result, "confidence", 50)
           original_verdict == Get(result, "verdict", "")
           Matches(p) == p.verdict = original_verdict
           matching_patterns == SelectSeq(patterns_used, Matches)
           boost == Min(15, Len(matching_patterns) * 5)
           new_confidence == Min(95, original_confidence + boost)
       IN  IF patterns_used # <<>> /\ matching_patterns # <<>>
           THEN result' = Put(Put(result, "confidence", new_confidence),
                              "learningBoost", <<boost, Len(matching_patterns)>>)
           ELSE UNCHANGED result
    /\ pc' = "reclass"
    /\ UNCHANGED <<inputs, store, pool, idx, exc, locals, watermarks, patterns_used,
                   response, saved, rk, dx>>

\* no metadata and learned patterns saying "Fake"
Reclass ==
    /\ pc = "reclass"
    /\ LET original_verdict == Get(result, "verdict", "")
           IsFake(p) == ContainsFake(p.verdict)
           fake_patterns == SelectSeq(patterns_used, IsFake)
       IN  IF /\ patterns_used # <<>>
              /\ ~Get(metadata, "has_metadata", FALSE)
              /\ fake_patterns # <<>>
              /\ original_verdict = "Inconclusive"
           THEN result' = Put(Put(Put(result, "verdict", "Fake/Generated"),
                                  "confidence", Max(70, Get(result, "confidence", 50))),
                              "learningAdjustment", "Verdict changed from Inconclusive")
           ELSE UNCHANGED result
    /\ pc' = "forensics"
    /\ UNCHANGED <<inputs, store, pool, idx, exc, locals, watermarks, patterns_used,
                   response, saved, rk, dx>>

\* `if forensics and not forensics.get("error")`: attach forensics and the
\* ELA / EXIF rows
AddForensics_OnlyWithEla ==
    /\ pc = "forensics"
    /\ IF DOMAIN forensics # {} /\ ~Has(forensics, "error") /\ Get(ela, "performed", FALSE)
       THEN result' = Put(Put(result, "forensics", forensics), "technicalDetails",
                          Get(result, "technicalDetails", <<>>)
                          \o <<"ELA Analysis", "EXIF Metadata">>)
       ELSE UNCHANGED result
    /\ pc' = "reverse"
    /\ UNCHANGED <<inputs, store, pool, idx, exc, locals, watermarks, patterns_used,
                   response, saved, rk, dx>>

AddForensics ==
    /\ pc = "forensics"
    /\ IF DOMAIN forensics # {} /\ ~Has(forensics, "error")
       THEN LET td0 == Get(result, "technicalDetails", <<>>)
                td1 == IF Get(ela, "performed", FALSE)
                       THEN Append(td0, "ELA Analysis") ELSE td0
                td2 == Append(td1, "EXIF Metadata")
            IN  result' = Put(Put(result, "forensics", forensics), "technicalDetails", td2)
       ELSE UNCHANGED result
    /\ pc' = "reverse"
    /\ UNCHANGED <<inputs, store, pool, idx, exc, locals, watermarks, patterns_used,
                   response, saved, rk, dx>>

\* `if reverse:` attach the reverse search analysis
AddReverse ==
    /\ pc = "reverse"
    /\ IF DOMAIN reverse # {}
       THEN result' = Put(result, "reverseSearch",
                          [verdict |-> Get(reverse, "analysis", <<>>).verdict,
                           matches |-> Get(reverse, "matches_found", 0)])
       ELSE UNCHANGED result
    /\ pc' = "watermarks"
    /\ UNCHANGED <<inputs, store, pool, idx, exc, locals, watermarks, patterns_used,
                   response, saved, rk, dx>>

\* result["watermarks"] = watermarks
AddWatermarks ==
    /\ pc = "watermarks"
    /\ result' = Put(result, "watermarks", watermarks)
    /\ pc' = "override"
    /\ UNCHANGED <<inputs, store, pool, idx, exc, locals, watermarks, patterns_used,
                   response, saved, rk, dx>>

\* WATERMARK BOOST: the boost and the list of sources
watermark_boost_NoSynthid ==
    (IF Get(c2pa_result, "detected", FALSE) THEN 20 ELSE 0)
    + (IF Get(visual_result, "detected", FALSE)
       THEN Min(15, Get(visual_result, "confidence", 0) \div 5) ELSE 0)

watermark_boost ==
    (IF Get(c2pa_result, "detected", FALSE) THEN 20 ELSE 0)
    + (IF Get(synthid_result, "detected", FALSE) THEN 15 ELSE 0)
    + (IF Get(visual_result, "detected", FALSE)
       THEN Min(15, Get(visual_result, "confidence", 0) \div 5) ELSE 0)

watermark_sources_Shifted ==
    (IF Get(c2pa_result, "detected", FALSE)
     THEN << <<"C2PA", Get(c2pa_result, "source", "AI")>> >> ELSE <<>>)
    \o (IF Get(visual_result, "detected", FALSE) THEN << <<"SynthID">> >> ELSE <<>>)
    \o (IF Get(visual_result, "detected", FALSE) THEN << <<"Visual AI Patterns">> >> ELSE <<>>)

watermark_sources ==
    (IF Get(c2pa_result, "detected", FALSE)
     THEN << <<"C2PA", Get(c2pa_result, "source", "AI")>> >> ELSE <<>>)
    \o (IF Get(synthid_result, "detected", FALSE) THEN << <<"SynthID">> >> ELSE <<>>)
    \o (IF Get(visual_result, "detected", FALSE) THEN << <<"Visual AI Patterns">> >> ELSE <<>>)

\* ABSOLUTE OVERRIDE
OverrideApplies_Above20 == watermark_boost > 20

OverrideApplies == watermark_boost > 0

Override ==
    /\ pc = "override"
    /\ IF OverrideApplies
       THEN result' = Put(Put(Put(Put(result, "confidence", 100),
                                  "verdict", "AI-Generated"),
                              "watermarkBoost", "Definitive Proof: AI Watermark Detected"),
                          "verdictAdjustment", watermark_sources)
       ELSE UNCHANGED result
    /\ pc' = "details"
    /\ UNCHANGED <<inputs, store, pool, idx, exc, locals, watermarks, patterns_used,
                   response, saved, rk, dx>>

\* the watermark rows appended to result["technicalDetails"]; a missing key
\* raises KeyError, which the outer except turns into a 500
Details ==
    /\ pc = "details"
    /\ LET rows == (IF Get(c2pa_result, "detected", FALSE) THEN <<"C2PA Watermark">> ELSE <<>>)
                   \o (IF Get(synthid_result, "detected", FALSE) THEN <<"SynthID">> ELSE <<>>)
                   \o (IF Get(visual_result, "detected", FALSE)
                       THEN <<"Visual AI Patterns">> ELSE <<>>)
       IN  IF rows # <<>> /\ ~Has(result, "technicalDetails")
           THEN /\ pc' = "done"
                /\ response' = [status |-> 500, error |-> "'technicalDetails'"]
                /\ UNCHANGED result
           ELSE /\ pc' = "finish"
                /\ result' = IF rows = <<>> THEN result
                              ELSE Put(result, "technicalDetails",
                                       result["technicalDetails"] \o rows)
                /\ UNCHANGED response
    /\ UNCHANGED <<inputs, store, pool, idx, exc, locals, watermarks, patterns_used,
                   saved, rk, dx>>

\* riskScore, learnedPatternsUsed, patternsApplied
Finish ==
    /\ pc = "finish"
    /\ result' = Put(Put(Put(result, "riskScore", risk_score),
                          "learnedPatternsUsed", Len(patterns_used)),
                      "patternsApplied", patterns_used)
    /\ pc' = "save"
    /\ UNCHANGED <<inputs, store, pool, idx, exc, locals, watermarks, patterns_used,
                   response, saved, rk, dx>>

\* SAVE TO SUPABASE (failures are printed and ignored), then jsonify(result)
Save ==
    /\ pc = "save"
    /\ \E db_ok \in BOOLEAN :
          saved' = IF db_ok
                   THEN Append(saved, [type |-> "image", result |-> result,
                                       verdict |-> Get(result, "verdict", None),
                                       confidence |-> Get(result, "confidence", 0)])
                   ELSE saved
    /\ response' = [status |-> 200, body |-> result]
    /\ pc' = "done"
    /\ UNCHANGED <<inputs, store, pool, idx, exc, locals, watermarks, patterns_used,
                   result, rk, dx>>

Next ==
    \/ Receive
    \/ Submit
    \/ \E t \in Tasks : StartTask(t)
    \/ \E t \in Tasks : FinishTask(t)
    \/ Collect
    \/ ExitPool
    \/ Summary
    \/ Prompt
    \/ AskLLM
    \/ Boost
    \/ Reclass
    \/ AddForensics
    \/ AddReverse
    \/ AddWatermarks
    \/ Override
    \/ Details
    \/ Finish
    \/ Save

Spec == Init /\ [][Next]_vars

\* What the scheduling guarantees: the request thread keeps running, every
\* submitted callable is started by a pool worker, and the CPU-bound
\* detectors run to completion.  search_image waits on the network
\* (requests.post; its timeout bounds each socket read, not the call), so
\* nothing guarantees that it returns.
PoolPhase == Receive \/ Submit \/ Collect \/ ExitPool

Workers ==
    \/ \E t \in Tasks : StartTask(t)
    \/ \E t \in Tasks \ {"reverse"} : FinishTask(t)

\* uploads of decodable images without embedded metadata, an ordinary
\* pattern table
InitLive ==
    /\ hasFile = TRUE
    /\ image \in {i \in Images : i.open /\ i.px /\ i.jpeg /\ i.exif.kind = "noattr"}
    /\ store = [available |-> TRUE, rows |-> MkStore(1, 1)]
    /\ InitRequest
    /\ rk = RkIdle
    /\ dx = DxIdle

LiveSpec ==
    /\ InitLive /\ [][Next]_vars
    /\ WF_vars(PoolPhase)
    /\ WF_vars(Workers)

\* ------------------------------------------- _calculate_risk on its own
\* Indicator lists of any content (with and without a "severity" key) and
\* two ELA readings a, b are handed to _calculate_risk.
IndicatorKinds ==
    {Indicator("x", sev) : sev \in {"high", "medium", "low", "info"}} \cup {[type |-> "x"]}

RECURSIVE SeqsUpTo(_, _)
SeqsUpTo(S, n) ==
    IF n = 0 THEN {<<>>}
    ELSE LET shorter == SeqsUpTo(S, n - 1)
         IN  shorter \cup {Append(q, x) : q \in {r \in shorter : Len(r) = n - 1}, x \in S}

MaxErrors == {0, 400, 2999, 5001, 25500}

RiskResults(inds, performed, max_error) ==
    [manipulation_indicators |-> inds,
     ela |-> IF performed THEN [performed |-> TRUE, max_error |-> max_error]
             ELSE [performed |-> FALSE, error |-> "ela failed"]]

InitRisk ==
    /\ hasFile = FALSE
    /\ image = CHOOSE i \in Images : ~i.open
    /\ store = CHOOSE st \in Stores : ~st.available
    /\ InitRequest
    /\ rk \in [stage : {"in"}, indicators : SeqsUpTo(IndicatorKinds, MaxInd),
                performed : BOOLEAN, a : MaxErrors, b : MaxErrors]
    /\ dx = DxIdle

CalcRisk ==
    /\ rk.stage = "in"
    /\ rk' = [stage |-> "out", indicators |-> rk.indicators, performed |-> rk.performed,
              a |-> rk.a, b |-> rk.b,
              riskA |-> _calculate_risk(RiskResults(rk.indicators, rk.performed, rk.a)),
              riskB |-> _calculate_risk(RiskResults(rk.indicators, rk.performed, rk.b))]
    /\ UNCHANGED <<inputs, store, pool, pc, idx, exc, locals, watermarks, patterns_used,
                   result, response, saved, dx>>

NextRisk == CalcRisk

SpecRisk == InitRisk /\ [][NextRisk]_vars

\* ------------------------------------------------ the detectors on their own
\* One buffer is handed to analyze_image_bytes, detect_c2pa, detect_synthid
\* and detect_visual_patterns, each up to MaxCalls times and in any
\* interleaving; analyze_image_bytes is called with the k-th file name on
\* its k-th call.
MaxCalls == 2

Detectors == {"analyze", "c2pa", "synthid", "visual"}

Filenames == {"upload.jpg", "holiday.png"}

\* metadata with matches of several generators in one surface, with matches
\* in several surfaces, and with a single match
GeneratorMeta ==
    { [exif |-> ExifNone, xmp |-> "Midjourney v6 via Stable Diffusion", xmpBig |-> TRUE,
       applist |-> <<>>, info |-> <<>>],
      [exif |-> [kind |-> "tags", tags |-> <<Tag("Software", "DALL-E 3")>>],
       xmp |-> "Adobe Firefly", xmpBig |-> FALSE,
       applist |-> <<"APP13 Photoshop 3.0 Copilot Designer">>, info |-> <<>>],
      [exif |-> [kind |-> "tags", tags |-> <<Tag("ImageDescription", "DALL-E 3")>>],
       xmp |-> None, xmpBig |-> FALSE, applist |-> <<"APP1 Exif">>, info |-> <<>>],
      [exif |-> ExifNone, xmp |-> "DALL-E 3", xmpBig |-> FALSE,
       applist |-> <<>>, info |-> <<>>],
      [exif |-> [kind |-> "tags", tags |-> <<Tag("Software", "Adobe Photoshop 2024")>>],
       xmp |-> None, xmpBig |-> FALSE, applist |-> <<>>, info |-> <<>>] }

\* pixel statistics that put the combined scores of the frequency heuristic
\* and of the visual detector on and just above their thresholds
ThresholdPixel(syn_first, uniformity, avg_saturation) ==
    [ela |-> [max_error |-> 400, avg_error |-> 150, suspicious_regions |-> 120],
     syn |-> [freq |-> syn_first, stat |-> (syn_first \div 50) * 50,
              lsb |-> (syn_first \div 50) * 50],
     vis |-> [blocks |-> TRUE, bimodal |-> 0, uniformity |-> uniformity, sharp |-> FALSE,
              avg_saturation |-> avg_saturation, sat_uniformity |-> 500,
              same_shape |-> TRUE, lr_correlation |-> 50,
              h_regular |-> FALSE, v_regular |-> FALSE]]

ThresholdPixels ==
    { ThresholdPixel(250, 300, 200), ThresholdPixel(260, 301, 200),
      ThresholdPixel(350, 650, 350), ThresholdPixel(360, 651, 350) }

Buffers ==
    Images \cup {MkImage(TRUE, TRUE, TRUE, TRUE, m, AnyPixels) : m \in GeneratorMeta}
           \cup {MkImage(TRUE, TRUE, TRUE, TRUE, AnyMeta, p) : p \in ThresholdPixels}

\* `detector = XDetector(); return detector.detect(bytes)`: every call
\* builds its own detector object and its own Image from the bytes, so
\* nothing of the earlier calls reaches it
Run_Remembering(d, img, fname, earlier) ==
    IF earlier # <<>> THEN [error |-> "detector busy"]
    ELSE CASE d = "analyze" -> analyze(img, fname)
           [] d = "c2pa" -> detect_c2pa(img)
           [] d = "synthid" -> detect_synthid(img)
           [] d = "visual" -> detect_visual_patterns(img)

Run(d, img, fname, earlier) ==
    CASE d = "analyze" -> analyze(img, fname)
      [] d = "c2pa" -> detect_c2pa(img)
      [] d = "synthid" -> detect_synthid(img)
      [] d = "visual" -> detect_visual_patterns(img)

InitDet ==
    /\ hasFile = FALSE
    /\ image = CHOOSE i \in Images : ~i.open
    /\ store = CHOOSE st \in Stores : ~st.available
    /\ InitRequest
    /\ rk = RkIdle
    /\ dx \in [stage : {"run"}, img : Buffers, names : [1..MaxCalls -> Filenames],
                calls : {[d \in Detectors |-> <<>>]}]

Invoke(d) ==
    /\ dx.stage = "run"
    /\ Len(dx.calls[d]) < MaxCalls
    /\ LET earlier == dx.calls[d]
           fname == dx.names[Len(earlier) + 1]
       IN  dx' = [dx EXCEPT !.calls[d] = Append(earlier, Run(d, dx.img, fname, earlier))]
    /\ UNCHANGED <<inputs, store, pool, pc, idx, exc, locals, watermarks, patterns_used,
                   result, response, saved, rk>>

NextDet == \E d \in Detectors : Invoke(d)

SpecDet == InitDet /\ [][NextDet]_vars

\* ================================================================ properties
Detected(r) == Get(r, "detected", FALSE)

AnyDetected == Detected(c2pa_result) \/ Detected(synthid_result) \/ Detected(visual_result)

Returned == Get(response, "status", 0) = 200

Body == Get(response, "body", <<>>)

Verdict(d) == Get(d, "verdict", None)

Confidence(d) == Get(d, "confidence", -1)

\* C1: whenever one of the C2PA, SynthID or visual detectors reported
\* detected, the returned report has verdict "AI-Generated" and confidence
\* 100; the override is in force from the moment the override step has run
\* and no later step changes verdict or confidence.
C1_OverrideWins ==
    /\ [](AnyDetected /\ Returned =>
             Verdict(Body) = "AI-Generated" /\ Confidence(Body) = 100)
    /\ [](AnyDetected /\ pc \in {"details", "finish", "save"} =>
             Verdict(result) = "AI-Generated" /\ Confidence(result) = 100)
    /\ [][(pc \in {"boost", "reclass"}) => (pc' \in {"reclass", "forensics"})]_vars
    /\ [][(pc \in {"details", "finish", "save"}) =>
             (Verdict(result') = Verdict(result) /\ Confidence(result') = Confidence(result))]_vars

\* a report whose confidence was first boosted by learned patterns and whose
\* verdict was then forced by a detection
C1_Witness ==
    /\ Returned /\ AnyDetected
    /\ Has(Body, "learningBoost")
    /\ Verdict(Body) = "AI-Generated" /\ Confidence(Body) = 100

\* C2: when the override is applied, verdictAdjustment names exactly the
\* detectors that reported detected: one C2PA entry iff C2PA detected,
\* "SynthID" iff SynthID detected, "Visual AI Patterns" iff the visual
\* detector detected, and nothing else.
Names(seq) == {seq[k][1] : k \in DOMAIN seq}

C2_OverrideNamesDetectors ==
    Has(result, "verdictAdjustment") =>
        LET va == result["verdictAdjustment"]
        IN  /\ ("C2PA" \in Names(va)) <=> Detected(c2pa_result)
            /\ ("SynthID" \in Names(va)) <=> Detected(synthid_result)
            /\ ("Visual AI Patterns" \in Names(va)) <=> Detected(visual_result)
            /\ Names(va) \subseteq {"C2PA", "SynthID", "Visual AI Patterns"}
            /\ Len(va) = Cardinality(Names(va))

C2_Witness ==
    /\ Returned
    /\ Has(Body, "verdictAdjustment")
    /\ Detected(c2pa_result) /\ ~Detected(synthid_result) /\ Detected(visual_result)
    /\ Len(Body["verdictAdjustment"]) = 2

\* C3: a report for a decodable image carries one signal for each of the
\* five detector kinds and a risk score in 0..100; when exactly one
\* detector raised, that signal carries the error and the other four do not.
Kinds == {"ela", "metadata", "provenance", "watermark_freq", "visual_pattern"}

Raised(k) ==
    CASE k = "ela" -> Has(ela, "error")
      [] k = "metadata" -> Has(metadata, "extraction_error")
      [] k = "provenance" -> Has(c2pa_result, "error")
      [] k = "watermark_freq" -> Has(synthid_result, "error")
      [] k = "visual_pattern" -> Has(visual_result, "error")

ReportHolder(k) ==
    IF k \in {"ela", "metadata"} THEN Get(Body, "forensics", <<>>)
    ELSE Get(Body, "watermarks", <<>>)

ReportKey(k) ==
    CASE k = "ela" -> "ela"
      [] k = "metadata" -> "metadata"
      [] k = "provenance" -> "c2pa"
      [] k = "watermark_freq" -> "synthid"
      [] k = "visual_pattern" -> "visual_ai"

ReportSignal(k) == Get(ReportHolder(k), ReportKey(k), <<>>)

ReportError(k) ==
    Has(ReportSignal(k), "error") \/ Has(ReportSignal(k), "extraction_error")

C3_FiveSignals ==
    Returned /\ image.open =>
        /\ \A k \in Kinds : Has(ReportHolder(k), ReportKey(k))
        /\ Get(Body, "riskScore", -1) \in 0..100
        /\ Cardinality({k \in Kinds : Raised(k)}) = 1 =>
               \A k \in Kinds : ReportError(k) <=> Raised(k)

\* the ELA step alone failed (the image cannot be re-saved as JPEG)
C3_Witness ==
    /\ Returned
    /\ {k \in Kinds : Raised(k)} = {"ela"}
    /\ ReportError("ela")
    /\ \A k \in Kinds : Has(ReportHolder(k), ReportKey(k))

\* C4: a C2PA, SynthID or visual detector that throws while decoding
\* resolves its future with an error signal (detected false, confidence 0)
\* instead of raising; only the reverse search can abort the collection;
\* and once the model's reply has parsed, the request ends with a report.
Throws(t) ==
    CASE t = "c2pa" -> ~image.open
      [] t \in {"synthid", "visual"} -> ~image.open \/ (~image.rgb /\ ~image.px)
      [] OTHER -> FALSE

WatermarkTasks == {"c2pa", "synthid", "visual"}

C4_DetectorFailureContained ==
    /\ \A t \in WatermarkTasks :
          task[t] = "done" /\ Throws(t) =>
              /\ Has(fut[t], "error") /\ ~Has(fut[t], "raised")
              /\ Get(fut[t], "detected", TRUE) = FALSE
              /\ Get(fut[t], "confidence", -1) = 0
    /\ exc => Has(fut["reverse"], "raised")
    /\ pc = "done" /\ DOMAIN result # {} /\ (\E t \in WatermarkTasks : Throws(t)) => Returned

\* SynthID and the visual detector threw on truncated pixel data, the C2PA
\* scan still detected, and the report was returned
C4_Witness ==
    /\ Returned
    /\ Throws("synthid") /\ Has(synthid_result, "error")
    /\ Detected(c2pa_result)

\* C5: when the uploaded bytes cannot be decoded, the request ends in a
\* single top-level error: no report is returned and none is saved.
C5_DecodeFailureIsError ==
    hasFile /\ ~image.open => ~Returned /\ saved = <<>>

\* C6: when all five detectors failed and the model's reply parsed, the
\* request returns a report with risk score 0 whose indicator list holds a
\* "no forensic evidence available" indicator.
AllFiveFailed ==
    /\ Has(forensics, "error")
    /\ Has(c2pa_result, "error") /\ Has(synthid_result, "error") /\ Has(visual_result, "error")

ReportIndicators ==
    Get(Get(Body, "forensics", <<>>), "manipulation_indicators", <<>>)

C6_NoEvidenceIndicator ==
    pc = "done" /\ AllFiveFailed /\ DOMAIN result # {} =>
        /\ Returned
        /\ Get(Body, "riskScore", -1) = 0
        /\ \E k \in DOMAIN ReportIndicators :
              ReportIndicators[k].type = "no_forensic_evidence"

\* C7: the collect stage always ends, also when one of the pooled callables
\* never returns.
C7_CollectEnds == <>(pc \notin {"start", "submit", "collect", "exit"})

\* C8: no fusion step runs before all five pooled callables have resolved,
\* and every callable is started exactly once per request.
C8_Barrier ==
    /\ pc \in FusionPcs =>
          \A t \in Tasks : task[t] = "done" /\ DOMAIN fut[t] # {} /\ runs[t] = 1
    /\ \A t \in Tasks : runs[t] <= 1
    /\ Returned => \A t \in Tasks : runs[t] = 1

C8_Witness ==
    /\ pc = "override"
    /\ \A t \in Tasks : task[t] = "done" /\ runs[t] = 1

\* C9: risk_score is the sum of the severity weights (high 30, medium 15,
\* low 5, info 0) plus, when ELA was performed, min(20, 0.4 * max_error),
\* truncated to an integer and clamped to 0..100; the ELA term is 0 when
\* ELA was not performed.
CountSeverity(inds, sev) ==
    Cardinality({k \in DOMAIN inds : Has(inds[k], "severity") /\ inds[k].severity = sev})

ExpectedRisk(inds, performed, max_error) ==
    LET weights == 30 * CountSeverity(inds, "high") + 15 * CountSeverity(inds, "medium")
                   + 5 * CountSeverity(inds, "low") + 0 * CountSeverity(inds, "info")
        term == IF performed THEN Min(20000, 4 * max_error) ELSE 0
        whole == (1000 * weights + term) \div 1000
    IN  Max(0, Min(100, whole))

C9_RiskFormula ==
    rk.stage = "out" =>
        /\ rk.riskA = ExpectedRisk(rk.indicators, rk.performed, rk.a)
        /\ rk.riskB = ExpectedRisk(rk.indicators, rk.performed, rk.b)

\* high + medium + low and a fractional ELA term 1.6: 30 + 15 + 5 + 1;
\* the same list with the ELA term capped at 20
C9_Witness ==
    /\ rk.stage = "out" /\ rk.performed
    /\ CountSeverity(rk.indicators, "high") = 1
    /\ CountSeverity(rk.indicators, "medium") = 1
    /\ CountSeverity(rk.indicators, "low") = 1
    /\ Len(rk.indicators) = 3
    /\ rk.a = 400 /\ rk.riskA = 51
    /\ rk.b = 25500 /\ rk.riskB = 70

\* C10: with the indicator list fixed and ELA performed, a larger max_error
\* never gives a smaller risk_score.
C10_RiskMonotone ==
    rk.stage = "out" /\ rk.performed /\ rk.a <= rk.b => rk.riskA <= rk.riskB

C10_Witness ==
    /\ rk.stage = "out" /\ rk.performed
    /\ rk.a < rk.b /\ rk.riskA < rk.riskB
    /\ rk.indicators # <<>>


\* ------------------------------------------------------------ detector runs
DetRuns(d) == IF dx.stage = "run" THEN dx.calls[d] ELSE <<>>

\* C11: the risk_score of analyze and the confidence of the provenance,
\* frequency and visual detectors are integers in 0..100 for every input.
C11_ScoresInRange ==
    /\ \A k \in DOMAIN DetRuns("analyze") :
          Get(DetRuns("analyze")[k], "risk_score", 0) \in 0..100
    /\ \A d \in {"c2pa", "synthid", "visual"} : \A k \in DOMAIN DetRuns(d) :
          Get(DetRuns(d)[k], "confidence", 0) \in 0..100


\* the indicators that _detect_manipulation derives from the ELA results
IsElaIndicator(ind) == ind.type \in {"ela_anomaly", "ela_regions"}

ElaIndicators(r) == SelectSeq(Get(r, "manipulation_indicators", <<>>), IsElaIndicator)

ElaOf(r) == Get(r, "ela", <<>>)

ElaPerformed(r) == Get(ElaOf(r), "performed", FALSE)

\* C12: with ELA max_error = 55 and suspicious_regions = 8 the ELA results
\* alone give one high and one medium indicator, and these plus the ELA term
\* add at least 45 to risk_score.
C12_ScenarioB ==
    \A k \in DOMAIN DetRuns("analyze") :
        LET r == DetRuns("analyze")[k]
        IN  ElaPerformed(r) /\ ElaOf(r).max_error = 5500
                /\ ElaOf(r).suspicious_regions = 800 =>
                /\ CountSeverity(ElaIndicators(r), "high") = 1
                /\ CountSeverity(ElaIndicators(r), "medium") = 1
                /\ RiskLoop(ElaIndicators(r), 0) + ElaTerm(ElaOf(r)) >= 45 * 1000


\* --------------------------------------------------------------- the report
ReportForensics == Get(Body, "forensics", <<>>)

Overridden == Has(Body, "watermarkBoost") \/ Has(Body, "verdictAdjustment")

\* C13: a report for an image with EXIF metadata, ELA performed with
\* max_error = 4 and no watermark detector reporting a detection has
\* risk_score <= 15, no high-severity indicator and no override.
C13_ScenarioA ==
    /\ Returned
    /\ Get(Get(ReportForensics, "metadata", <<>>), "has_metadata", FALSE)
    /\ ElaPerformed(ReportForensics) /\ ElaOf(ReportForensics).max_error = 400
    /\ ~AnyDetected
    => /\ Get(Body, "riskScore", -1) \in 0..15
       /\ Get(ReportForensics, "risk_score", -1) \in 0..15
       /\ CountSeverity(ReportIndicators, "high") = 0
       /\ ~Overridden


\* ---------------------------------------------------------- learned patterns
MatchingCount ==
    Cardinality({k \in DOMAIN patterns_used :
                    patterns_used[k].verdict = Get(result, "verdict", "")})

\* C14: the learning boost step sets the confidence to
\* min(95, original + min(15, 5 * matching_count)) when at least one of the
\* up-to-5 patterns read has the proposed verdict, and changes nothing
\* otherwise.
C14_LearningBoost ==
    [][(pc = "boost") =>
          /\ Len(patterns_used) <= 5
          /\ IF MatchingCount >= 1
             THEN Get(result', "confidence", -1)
                     = Min(95, Get(result, "confidence", 50) + Min(15, 5 * MatchingCount))
             ELSE result' = result]_vars

C14_Witness ==
    /\ pc = "reclass"
    /\ Has(result, "learningBoost") /\ result.learningBoost[2] = 4
    /\ result.confidence = 65


FakeCount ==
    Cardinality({k \in DOMAIN patterns_used : ContainsFake(patterns_used[k].verdict)})

ReclassConditions ==
    /\ ~Get(metadata, "has_metadata", FALSE)
    /\ FakeCount >= 1
    /\ Get(result, "verdict", "") = "Inconclusive"

\* C15: the reclassification step turns the verdict into "AI-Generated/Fake"
\* with confidence at least 70 when metadata is absent, a learned pattern's
\* verdict contains "Fake" and the proposed verdict is "Inconclusive"; when
\* one of the three conditions fails it leaves the verdict alone.
C15_Reclassify ==
    [][(pc = "reclass") =>
          IF ReclassConditions
          THEN /\ Get(result', "verdict", "") = "AI-Generated/Fake"
               /\ Get(result', "confidence", -1) >= 70
          ELSE Get(result', "verdict", "") = Get(result, "verdict", "")]_vars


ImageRows == {r \in store.rows : r.type = "image"}

\* the image rows with fewer than five image rows used more often
MostUsed ==
    {r \in ImageRows :
        Cardinality({q \in ImageRows : q.usage_count > r.usage_count}) < 5}

PatternsRead == pc \in FusionPcs \ {"summary", "prompt"}

\* C16: a request reads at most five patterns, all of type "image" and the
\* most used ones, and never changes the pattern store.
C16_ReadsTopFiveOnly ==
    /\ [](PatternsRead =>
            /\ Len(patterns_used) <= 5
            /\ Len(patterns_used) = IF store.available THEN Cardinality(MostUsed) ELSE 0
            /\ store.available =>
                  \A v \in {r.verdict : r \in store.rows} :
                      Cardinality({k \in DOMAIN patterns_used : patterns_used[k].verdict = v})
                          = Cardinality({r \in MostUsed : r.verdict = v}))
    /\ [][store' = store]_vars

C16_Witness ==
    /\ pc = "done" /\ Returned
    /\ Cardinality(ImageRows) > 5
    /\ Len(patterns_used) = 5
    /\ Body.learnedPatternsUsed = 5


\* ---------------------------------------------------- repeated invocations
\* what a detector reports about the image: everything but the caller's
\* file name, which analyze echoes
Scores(r) == [k \in (DOMAIN r) \ {"filename"} |-> r[k]]

C18_FilenameIrrelevant ==
    \A j, k \in DOMAIN DetRuns("analyze") :
        LET a == DetRuns("analyze")[j]
            b == DetRuns("analyze")[k]
        IN  /\ Get(a, "manipulation_indicators", None) = Get(b, "manipulation_indicators", None)
            /\ Get(a, "risk_score", None) = Get(b, "risk_score", None)

C18_Witness ==
    /\ Len(DetRuns("analyze")) >= 2
    /\ Get(DetRuns("analyze")[1], "filename", None) # Get(DetRuns("analyze")[2], "filename", None)
    /\ Get(DetRuns("analyze")[1], "risk_score", 0) >= 50
    /\ Get(DetRuns("analyze")[2], "risk_score", 0) >= 50


\* C19: when ELA was performed, max_error > 30 gives a high-severity
\* indicator and suspicious_regions > 5 gives a medium-severity indicator,
\* each independently of the other.
C19_ElaPolicy ==
    \A k \in DOMAIN DetRuns("analyze") :
        LET r == DetRuns("analyze")[k]
        IN  ElaPerformed(r) =>
                /\ ElaOf(r).max_error > 3000 => CountSeverity(ElaIndicators(r), "high") >= 1
                /\ ElaOf(r).suspicious_regions > 500 =>
                       CountSeverity(ElaIndicators(r), "medium") >= 1

\* ---------------------------------------------------------------- provenance
\* the metadata texts in the order the surfaces are checked: XMP, EXIF,
\* IPTC, image info
IsSignatureTag(t) == t.tag \in {"Software", "Make", "Model", "ImageDescription", "UserComment"}

IsIptcSegment(app) == Contains(<<"iptc">>, Lower(app)) \/ Contains(<<"photoshop">>, Lower(app))

SurfaceTexts(img) ==
    (IF img.xmp # None THEN <<Lower(img.xmp)>> ELSE <<>>)
    \o (IF img.exif.kind = "tags"
        THEN LET tags == SelectSeq(img.exif.tags, IsSignatureTag)
             IN  [k \in DOMAIN tags |-> Lower(tags[k].value)]
        ELSE <<>>)
    \o (LET apps == SelectSeq(img.applist, IsIptcSegment)
        IN  [k \in DOMAIN apps |-> Lower(apps[k])])
    \o [k \in DOMAIN InfoItems(img) |-> Lower(InfoItems(img)[k].value)]

Matching(text) == {k \in DOMAIN AI_SIGNATURES : Contains(AI_SIGNATURES[k][2], text)}

\* the generator of the first matching signature of the first text that
\* has a match
FirstMatch(img) ==
    LET texts == SurfaceTexts(img)
        hits == {i \in DOMAIN texts : Matching(texts[i]) # {}}
    IN  IF hits = {} THEN None
        ELSE LET i == CHOOSE x \in hits : \A y \in hits : x <= y
                 k == CHOOSE x \in Matching(texts[i]) : \A y \in Matching(texts[i]) : x <= y
             IN  AI_SIGNATURES[k][1]

\* C20: the provenance scanner reports the generator of the first match of
\* the first surface with a match; later matches never replace it, and
\* metadata whose only match is "dall-e" gives detected with source "dall-e".
C20_FirstSurfaceFirstMatch ==
    \A k \in DOMAIN DetRuns("c2pa") :
        LET r == DetRuns("c2pa")[k]
        IN  ~Has(r, "error") =>
                /\ r.source = FirstMatch(dx.img)
                /\ FirstMatch(dx.img) # None => r.detected


\* the generators with a matching signature in some metadata text, and the
\* C2PA content-credentials marker of the XMP packet
MatchedGenerators(img) ==
    {AI_SIGNATURES[k][1] :
        k \in UNION {Matching(SurfaceTexts(img)[i]) : i \in DOMAIN SurfaceTexts(img)}}

HasCredentials(img) ==
    /\ img.xmp # None
    /\ Contains(<<"c2pa">>, Lower(img.xmp)) \/ Contains(<<"contentcredentials">>, Lower(img.xmp))

DistinctMatches(img) ==
    Cardinality(MatchedGenerators(img)) + (IF HasCredentials(img) THEN 1 ELSE 0)

\* C21: the provenance confidence is min(100, 25 * d + 50) for d distinct
\* matches (a signature found in several surfaces, or several aliases of one
\* generator, counting once), and 0 when nothing matched.
C21_DistinctMatchConfidence ==
    \A k \in DOMAIN DetRuns("c2pa") :
        LET r == DetRuns("c2pa")[k]
            d == DistinctMatches(dx.img)
        IN  ~Has(r, "error") =>
                r.confidence = IF d = 0 THEN 0 ELSE Min(100, 25 * d + 50)


\* ------------------------------------------------------ frequency heuristic
\* 0.4 * freq + 0.3 * entropy + 0.3 * lsb of a result's sub-scores (each in
\* thousandths), in ten-thousandths
Weighted(analysis) ==
    4 * analysis.frequency_anomaly + 3 * analysis.statistical_pattern
    + 3 * analysis.lsb_pattern

PixelsRead(img) == img.open /\ img.rgb /\ img.px

\* C22: the frequency heuristic combines 0.4 freq + 0.3 entropy + 0.3 lsb;
\* above 0.35 it detects, in (0.25, 0.35] it detects with the "possible
\* pattern" note, at or below 0.25 it does not detect; the confidence is
\* always the combined score times 100, truncated.
C22_FrequencyThresholds ==
    \A k \in DOMAIN DetRuns("synthid") :
        LET r == DetRuns("synthid")[k]
            c == Weighted(r.analysis)
        IN  ~Has(r, "error") =>
                /\ PixelsRead(dx.img) =>
                      /\ r.analysis.frequency_anomaly = dx.img.syn.freq
                      /\ r.analysis.statistical_pattern = dx.img.syn.stat
                      /\ r.analysis.lsb_pattern = dx.img.syn.lsb
                /\ r.confidence = c \div 100
                /\ c > 3500 => r.detected /\ r.note # "Possible SynthID pattern detected"
                /\ c > 2500 /\ c <= 3500 =>
                      r.detected /\ r.note = "Possible SynthID pattern detected"
                /\ c <= 2500 => ~r.detected

C22_Witness ==
    /\ Len(DetRuns("synthid")) >= 1
    /\ PixelsRead(dx.img)
    /\ Weighted(DetRuns("synthid")[1].analysis) = 3500
    /\ DetRuns("synthid")[1].note = "Possible SynthID pattern detected"
    /\ DetRuns("synthid")[1].confidence = 35


\* ---------------------------------------------------------- visual detector
\* the sub-scores and indicators the five sub-analyses return for the image
VisualParts(img) ==
    << _analyze_texture_patterns(img), _analyze_edge_consistency(img),
       _analyze_color_distribution(img), _analyze_noise_symmetry(img),
       _detect_ai_artifacts(img) >>

\* 0.20 texture + 0.20 edge + 0.15 color + 0.20 symmetry + 0.25 artifact, in
\* hundred-thousandths
VisualWeighted(parts) ==
    20 * parts[1][1] + 20 * parts[2][1] + 15 * parts[3][1] + 20 * parts[4][1]
    + 25 * parts[5][1]

\* C23: the visual detector weighs texture, edge, color, symmetry and
\* artifact by 0.20, 0.20, 0.15, 0.20, 0.25; above 0.40 it detects with
\* "Likely AI-generated", in (0.30, 0.40] it detects with "Possibly
\* AI-generated", at or below 0.30 it does not detect and says "Likely
\* authentic".
C23_VisualThresholds ==
    \A k \in DOMAIN DetRuns("visual") :
        LET r == DetRuns("visual")[k]
            c == VisualWeighted(VisualParts(dx.img))
        IN  ~Has(r, "error") =>
                /\ c > 40000 => r.detected /\ r.verdict = "Likely AI-generated"
                /\ c > 30000 /\ c <= 40000 =>
                      r.detected /\ r.verdict = "Possibly AI-generated"
                /\ c <= 30000 => ~r.detected /\ r.verdict = "Likely authentic"

C23_Witness ==
    /\ Len(DetRuns("visual")) >= 1
    /\ PixelsRead(dx.img)
    /\ VisualWeighted(VisualParts(dx.img)) = 40000
    /\ DetRuns("visual")[1].detected
    /\ DetRuns("visual")[1].verdict = "Possibly AI-generated"

RECURSIVE Flatten(_)
Flatten(seqs) == IF seqs = <<>> THEN <<>> ELSE Head(seqs) \o Flatten(Tail(seqs))

\* every indicator the sub-analyses triggered, texture first, artifact last
Triggered(img) ==
    LET parts == VisualParts(img)
    IN  Flatten([i \in DOMAIN parts |-> parts[i][2]])

\* C24: the visual detector returns at most five indicators, the first five
\* of those triggered in the order texture, edge, color, symmetry, artifact.
C24_TopFiveIndicators ==
    \A k \in DOMAIN DetRuns("visual") :
        LET r == DetRuns("visual")[k]
            all == Triggered(dx.img)
        IN  ~Has(r, "error") =>
                /\ Len(r.indicators) <= 5
                /\ Len(r.indicators) = Min(5, Len(all))
                /\ \A i \in DOMAIN r.indicators : r.indicators[i] = all[i]

C24_Witness ==
    /\ Len(DetRuns("visual")) >= 1
    /\ ~Has(DetRuns("visual")[1], "error")
    /\ Len(Triggered(dx.img)) = 7
    /\ Len(DetRuns("visual")[1].indicators) = 5
    /\ DetRuns("visual")[1].indicators[5] = "Symmetric noise patterns detected"


\* ------------------------------------------------------- metadata indicators
CountType(inds, type) == Cardinality({k \in DOMAIN inds : inds[k].type = type})

IsNotInfo(ind) == ind.severity # "info"

NamesEditingTool(software) ==
    software # None /\ \E tool \in {"photoshop", "gimp", "lightroom", "snapseed", "canva"} :
                           Contains(<<tool>>, Lower(software))

\* C25: has_metadata false gives exactly one medium metadata_missing
\* indicator, a software string naming an editing tool (in any case) gives
\* one low indicator, an empty gps map gives one info indicator, and the
\* info indicator adds nothing to risk_score.
C25_MetadataIndicators ==
    \A k \in DOMAIN DetRuns("analyze") :
        LET r == DetRuns("analyze")[k]
            inds == Get(r, "manipulation_indicators", <<>>)
        IN  ~Has(r, "error") =>
                /\ CountType(inds, "metadata_missing")
                      = IF r.metadata.has_metadata THEN 0 ELSE 1
                /\ \A i \in DOMAIN inds :
                      inds[i].type = "metadata_missing" => inds[i].severity = "medium"
                /\ CountType(inds, "editing_software")
                      = IF NamesEditingTool(r.metadata.software) THEN 1 ELSE 0
                /\ \A i \in DOMAIN inds :
                      inds[i].type = "editing_software" => inds[i].severity = "low"
                /\ CountType(inds, "no_location")
                      = IF DOMAIN r.metadata.gps = {} THEN 1 ELSE 0
                /\ \A i \in DOMAIN inds :
                      inds[i].type = "no_location" => inds[i].severity = "info"
                /\ r.risk_score
                      = _calculate_risk([r EXCEPT !.manipulation_indicators =
                                                     SelectSeq(inds, IsNotInfo)])

C25_Witness ==
    /\ Len(DetRuns("analyze")) >= 1
    /\ ~Has(DetRuns("analyze")[1], "error")
    /\ DetRuns("analyze")[1].metadata.software = "GIMP 2.10"
    /\ CountType(DetRuns("analyze")[1].manipulation_indicators, "editing_software") = 1
    /\ CountType(DetRuns("analyze")[1].manipulation_indicators, "no_location") = 1
    /\ CountType(DetRuns("analyze")[1].manipulation_indicators, "metadata_missing") = 0


\* ------------------------------------------------------------- ELA failure
\* the image opens but the ELA step raises: the pixel data cannot be read,
\* or the JPEG re-save fails
ElaFails(img) == img.open /\ (~img.px \/ ~img.jpeg)

\* C26: when the ELA step fails, ela is performed = false with an error
\* reason, analyze still returns metadata, indicators and a risk_score
\* without any ELA contribution instead of a top-level error, and the other
\* detectors return what they return when the ELA step succeeds.
C26_ElaFailureContained ==
    dx.stage = "run" /\ ElaFails(dx.img) =>
        /\ \A k \in DOMAIN DetRuns("analyze") :
              LET r == DetRuns("analyze")[k]
              IN  /\ ~Has(r, "error")
                  /\ Has(r, "ela") /\ r.ela.performed = FALSE /\ Has(r.ela, "error")
                  /\ Has(r, "metadata") /\ Has(r, "manipulation_indicators")
                  /\ ElaIndicators(r) = <<>>
                  /\ Has(r, "risk_score")
                  /\ r.risk_score
                        = Min(100, 30 * CountSeverity(r.manipulation_indicators, "high")
                                   + 15 * CountSeverity(r.manipulation_indicators, "medium")
                                   + 5 * CountSeverity(r.manipulation_indicators, "low"))
        /\ dx.img.px =>
              \A d \in Detectors \ {"analyze"} : \A k \in DOMAIN DetRuns(d) :
                  /\ ~Has(DetRuns(d)[k], "error")
                  /\ DetRuns(d)[k] = Run(d, [dx.img EXCEPT !.jpeg = TRUE], "", <<>>)

C26_Witness ==
    /\ dx.stage = "run" /\ ElaFails(dx.img) /\ dx.img.px
    /\ \A d \in Detectors : Len(DetRuns(d)) >= 1
    /\ DetRuns("analyze")[1].risk_score = 5
    /\ DetRuns("c2pa")[1].detected


\* C27: the learning boost step never lowers the confidence, for any
\* proposed confidence in 0..100 and any number of matching patterns.
C27_BoostNeverLowers ==
    [][(pc = "boost" /\ Get(result, "confidence", 50) \in 0..100) =>
          Get(result', "confidence", 50) >= Get(result, "confidence", 50)]_vars


\* ------------------------------------------------- sub-analyses falling back
\* the image opens in RGB mode but its pixel data cannot be read: every
\* sub-analysis of the frequency heuristic takes its except branch
SubAnalysesFail == hasFile /\ image.open /\ image.rgb /\ ~image.px

PastOverride == pc \in {"details", "finish", "save"} \/ Returned

\* C28: when all three sub-analyses of the frequency heuristic fall back to
\* 0.3, detect_synthid reports no error but detected = true with the
\* "possible pattern" note (combined 0.30), and verify_image forces the
\* verdict "AI-Generated" with confidence 100.
C28_FallbackTriggersOverride ==
    SubAnalysesFail /\ DOMAIN synthid_result # {} =>
        /\ ~Has(synthid_result, "error")
        /\ synthid_result.analysis
              = [frequency_anomaly |-> 300, statistical_pattern |-> 300, lsb_pattern |-> 300]
        /\ synthid_result.detected
        /\ synthid_result.confidence = 30
        /\ synthid_result.note = "Possible SynthID pattern detected"
        /\ PastOverride =>
              /\ Verdict(result) = "AI-Generated"
              /\ Confidence(result) = 100
              /\ Has(result, "watermarkBoost")

C28_Witness ==
    /\ SubAnalysesFail /\ Returned
    /\ ~Detected(c2pa_result) /\ ~Detected(visual_result)
    /\ Verdict(Body) = "AI-Generated" /\ Confidence(Body) = 100
    /\ Body.verdictAdjustment = << <<"SynthID">> >>


\* ------------------------------------------------------------ override stage
\* C29: without a detection the override stage leaves verdict and confidence
\* as the learned-pattern adjustment left them and sets neither
\* watermarkBoost nor verdictAdjustment; with a detection by any of the
\* three detectors watermark_boost is positive and the override is applied.
C29_OverrideOnlyOnDetection ==
    /\ [](AnyDetected => watermark_boost > 0)
    /\ [][(pc \in {"forensics", "reverse", "watermarks", "override"}) =>
             IF AnyDetected
             THEN (pc' = "details" =>
                      /\ Verdict(result') = "AI-Generated" /\ Confidence(result') = 100
                      /\ Has(result', "watermarkBoost") /\ Has(result', "verdictAdjustment"))
             ELSE /\ Verdict(result') = Verdict(result)
                  /\ Confidence(result') = Confidence(result)
                  /\ ~Has(result', "watermarkBoost") /\ ~Has(result', "verdictAdjustment")]_vars

C29_Witness ==
    /\ Returned /\ ~AnyDetected
    /\ image.open /\ image.px
    /\ Verdict(Body) = "Fake/Generated" /\ Confidence(Body) = 70
    /\ ~Has(Body, "watermarkBoost") /\ ~Has(Body, "verdictAdjustment")


\* ------------------------------------------------------------- risk ceiling
\* C30: the risk_score returned by analyze is at most 65: metadata_missing
\* and editing_software never occur together (software is only set when
\* has_metadata is), at most one ELA indicator is emitted, and the ELA term
\* is at most 20.
C30_RiskAtMost65 ==
    \A k \in DOMAIN DetRuns("analyze") :
        LET r == DetRuns("analyze")[k]
        IN  ~Has(r, "error") =>
                /\ r.risk_score <= 65
                /\ r.metadata.software # None => r.metadata.has_metadata
                /\ CountType(r.manipulation_indicators, "metadata_missing")
                      + CountType(r.manipulation_indicators, "editing_software") <= 1
                /\ Len(ElaIndicators(r)) <= 1
                /\ ElaTerm(r.ela) <= 20 * 1000

C30_Witness ==
    /\ Len(DetRuns("analyze")) >= 1
    /\ Get(DetRuns("analyze")[1], "risk_score", 0) = 65
    /\ CountType(DetRuns("analyze")[1].manipulation_indicators, "metadata_missing") = 1
    /\ CountSeverity(ElaIndicators(DetRuns("analyze")[1]), "high") = 1

====
